---- MODULE Spec2Model ----
\* Verification model of the art_os kernel: the VGA text writer
\* (src/src/vga_buffer.rs), the global writer behind its spin lock, the
\* kernel entry points and panic handlers (src/src/main.rs, src/src/lib.rs)
\* and the test harness with its QEMU exit port (src/src/lib.rs).
EXTENDS Integers, Sequences, FiniteSets, TLC

\* ---------------------------------------------------------------------
\* Program constants
\* ---------------------------------------------------------------------

\* vga_buffer.rs:73-74
BUFFER_HEIGHT == 25
BUFFER_WIDTH == 80

\* vga_buffer.rs:11, 25 (enum Color discriminants)
Black == 0
Yellow == 14

\* b'\n', b' ' and the placeholder of write_string (vga_buffer.rs:126,129,142,186)
NEWLINE == 10
SPACE == 32
PLACEHOLDER == 254

\* lib.rs:64-65 (enum QemuExitCode) and lib.rs:74 (the exit port)
QEMU_SUCCESS == 16
QEMU_FAILED == 17
EXIT_PORT == 244

\* ---------------------------------------------------------------------
\* Bounds of the model
\* ---------------------------------------------------------------------

\* number of print calls of the main-line code explored by PrintSpec
MaxPrints == 2
\* number of interrupts explored by PrintSpec
MaxInterrupts == 1
\* longest list of registered test cases explored by KernelSpec
MaxTests == 3

\* number of calls on the writer API explored by Spec
MaxOps == 3

Rows == 0..(BUFFER_HEIGHT - 1)
Cols == 0..(BUFFER_WIDTH - 1)

\* ---------------------------------------------------------------------
\* State
\* ---------------------------------------------------------------------
VARIABLES
    chars,            \* Buffer.chars: the memory-mapped grid at 0xb8000
    column_position,  \* Writer.column_position
    color_code,       \* Writer.color_code
    last_op,          \* history: the last call made on the writer and its input
    old_chars,        \* history: chars before the last call
    old_column,       \* history: column_position before the last call
    cell_writes,      \* history: the cells addressed by write_byte in the last call
    scrolls,          \* history: number of new_line() runs in the last call
    nops,             \* number of calls made so far
    writer_ready,     \* lazy_static WRITER: whether the Writer was constructed
    lock,             \* the flag of the spin::Mutex around the Writer
    holder,           \* history: the context that took the lock
    pc,               \* position of each execution context
    ret,              \* where each context continues after its _print call
    out,              \* bytes the _print call of each context has still to write
    callid,           \* history: number of the _print call each context is in
    calls,            \* history: number of _print calls started
    emitted,          \* history: per byte given to the writer, who wrote it
    interrupts,       \* number of interrupts taken
    build,            \* "normal" or "test" (cfg(test))
    entry,            \* which _start runs: "main" (main.rs) or "lib" (lib.rs)
    tests,            \* the registered test cases: "pass" or "panic" each
    idx,              \* loop position of test_runner
    trace,            \* history: serial output, test calls and port writes
    host_status       \* whether the emulator has ended the run, and its status

writerVars == <<chars, column_position, color_code>>
histVars == <<last_op, old_chars, old_column, cell_writes, scrolls, nops>>
lockVars == <<writer_ready, lock, holder>>
printVars == <<ret, out, callid, calls, emitted>>
kernelVars == <<build, entry, tests, idx, trace, host_status>>
vars == <<chars, column_position, color_code,
          last_op, old_chars, old_column, cell_writes, scrolls, nops,
          writer_ready, lock, holder, pc, ret, out, callid, calls, emitted,
          interrupts, build, entry, tests, idx, trace, host_status>>

\* ---------------------------------------------------------------------
\* ColorCode, ScreenChar
\* ---------------------------------------------------------------------

RECURSIVE BitOr(_, _, _)
\* bitwise or of two naturals over the low n bits
BitOr(a, b, n) ==
    IF n = 0 THEN 0
    ELSE (IF (a % 2 = 1) \/ (b % 2 = 1) THEN 1 ELSE 0)
         + 2 * BitOr(a \div 2, b \div 2, n - 1)

\* the discriminants of enum Color: Black = 0 .. White = 15
Colors == 0..15

\* mutant of ColorCode_new: the background shifted by three bits
ColorCode_new_shift3(foreground, background) ==
    BitOr((background * 8) % 256, foreground, 8)

\* ColorCode::new: (background as u8) << 4 | (foreground as u8), in u8
ColorCode_new(foreground, background) ==
    BitOr((background * 16) % 256, foreground, 8)

ScreenChar(ascii, color) == [ascii_character |-> ascii, color_code |-> color]

\* ---------------------------------------------------------------------
\* Writer methods, as functions on a writer value
\*   w = [chars, column_position, color_code, cell_writes, scrolls]
\* cell_writes and scrolls are the history of the call in progress.
\* ---------------------------------------------------------------------

\* the element of a one-element set.  Only({ G(v) : v \in {F} }) is G
\* applied to the value of F: the statement that computes F is finished
\* before the statements of G begin
Only(S) == CHOOSE r \in S : TRUE

\* self.buffer.chars[row][col].write(c): an index outside the array panics
\* in Rust and stores nothing
cell_write(buf, row, col, c) ==
    IF row \in DOMAIN buf /\ col \in DOMAIN buf[row]
    THEN [buf EXCEPT ![row][col] = c]
    ELSE buf

\* clear_row: every column of the row becomes a blank of the current color
clear_row(w, row) ==
    LET blank == ScreenChar(SPACE, w.color_code)
    IN  [w EXCEPT !.chars[row] = [col \in Cols |-> blank]]

RECURSIVE copy_cols(_, _, _, _)
\* inner loop of new_line at a fixed row: the turns lo..hi of
\* for col in 0..BUFFER_WIDTH, in ascending order, one read and one write
\* per turn
copy_cols(buf, row, lo, hi) ==
    IF lo > hi THEN buf
    ELSE IF lo = hi
         THEN LET character == buf[row][lo]
              IN  cell_write(buf, row - 1, lo, character)
         ELSE LET mid == (lo + hi) \div 2
              IN  Only({ copy_cols(b, row, mid + 1, hi) :
                         b \in {copy_cols(buf, row, lo, mid)} })

RECURSIVE copy_rows_descending(_, _, _)
\* mutant of copy_rows: the rows are copied from the last one down, so a row
\* is overwritten before it is read
copy_rows_descending(buf, lo, hi) ==
    IF lo > hi THEN buf
    ELSE IF lo = hi
         THEN copy_cols(buf, lo, 0, BUFFER_WIDTH - 1)
         ELSE LET mid == (lo + hi) \div 2
              IN  Only({ copy_rows_descending(b, lo, mid) :
                         b \in {copy_rows_descending(buf, mid + 1, hi)} })

RECURSIVE copy_rows(_, _, _)
\* outer loop of new_line, in place: the turns lo..hi of
\* for row in 1..BUFFER_HEIGHT, in ascending order
copy_rows(buf, lo, hi) ==
    IF lo > hi THEN buf
    ELSE IF lo = hi
         THEN copy_cols(buf, lo, 0, BUFFER_WIDTH - 1)
         ELSE LET mid == (lo + hi) \div 2
              IN  Only({ copy_rows(b, mid + 1, hi) :
                         b \in {copy_rows(buf, lo, mid)} })

\* mutant of new_line: the column is left where it was
new_line_keeps_column(w) ==
    Only({ clear_row(shifted, BUFFER_HEIGHT - 1) :
           shifted \in {[w EXCEPT !.chars = copy_rows(@, 1, BUFFER_HEIGHT - 1),
                                  !.scrolls = @ + 1]} })

\* new_line: shift in place, clear the last row, reset the column
new_line(w) ==
    Only({ [clear_row(shifted, BUFFER_HEIGHT - 1) EXCEPT !.column_position = 0] :
           shifted \in {[w EXCEPT !.chars = copy_rows(@, 1, BUFFER_HEIGHT - 1),
                                  !.scrolls = @ + 1]} })

\* mutant of put_byte: the cell is addressed in the first row
put_byte_first_row(w1, byte) ==
    LET row == 0
        col == w1.column_position
        c == ScreenChar(byte, w1.color_code)
    IN  [w1 EXCEPT !.chars = cell_write(@, row, col, c),
                   !.cell_writes = Append(@, [row |-> row, col |-> col, c |-> c]),
                   !.column_position = @ + 1]

\* the cell write and the increment that end write_byte
put_byte(w1, byte) ==
    LET row == BUFFER_HEIGHT - 1
        col == w1.column_position
        c == ScreenChar(byte, w1.color_code)
    IN  [w1 EXCEPT !.chars = cell_write(@, row, col, c),
                   !.cell_writes = Append(@, [row |-> row, col |-> col, c |-> c]),
                   !.column_position = @ + 1]

\* mutant of write_byte: wraps only when column_position > BUFFER_WIDTH
write_byte_wrap_late(w, byte) ==
    IF byte = NEWLINE THEN new_line(w)
    ELSE Only({ put_byte(w1, byte) :
                w1 \in {IF w.column_position > BUFFER_WIDTH THEN new_line(w) ELSE w} })

\* mutant of write_byte: wraps one column early
write_byte_wrap_early(w, byte) ==
    IF byte = NEWLINE THEN new_line(w)
    ELSE Only({ put_byte(w1, byte) :
                w1 \in {IF w.column_position >= BUFFER_WIDTH - 1 THEN new_line(w) ELSE w} })

\* mutant of write_byte: the placeholder substitution done here
write_byte_filtering(w, byte) ==
    IF byte = NEWLINE THEN new_line(w)
    ELSE Only({ put_byte(w1, IF byte >= 32 /\ byte <= 126
                                 THEN byte ELSE PLACEHOLDER) :
                w1 \in {IF w.column_position >= BUFFER_WIDTH THEN new_line(w) ELSE w} })

\* mutant of write_byte: the full-row test made before the match on the byte
write_byte_check_first(w, byte) ==
    Only({ IF byte = NEWLINE THEN new_line(w1) ELSE put_byte(w1, byte) :
           w1 \in {IF w.column_position >= BUFFER_WIDTH THEN new_line(w) ELSE w} })

\* write_byte
write_byte(w, byte) ==
    IF byte = NEWLINE THEN new_line(w)
    ELSE Only({ put_byte(w1, byte) :
                w1 \in {IF w.column_position >= BUFFER_WIDTH THEN new_line(w) ELSE w} })

\* mutant of write_string_byte: the printable range taken as 0x20..0x7e
\* exclusive
write_string_byte_exclusive(w, byte) ==
    IF (byte >= 32 /\ byte < 126) \/ byte = NEWLINE
    THEN write_byte(w, byte)
    ELSE write_byte(w, PLACEHOLDER)

\* the match of write_string on one byte
write_string_byte(w, byte) ==
    IF (byte >= 32 /\ byte <= 126) \/ byte = NEWLINE
    THEN write_byte(w, byte)
    ELSE write_byte(w, PLACEHOLDER)

RECURSIVE write_string_range(_, _, _, _)
\* the turns lo..hi of the loop of write_string, in order
write_string_range(w, s, lo, hi) ==
    IF lo > hi THEN w
    ELSE IF lo = hi
         THEN write_string_byte(w, s[lo])
         ELSE LET mid == (lo + hi) \div 2
              IN  Only({ write_string_range(w2, s, mid + 1, hi) :
                         w2 \in {write_string_range(w, s, lo, mid)} })

\* write_string: for byte in s.bytes()
write_string(w, s) == write_string_range(w, s, 1, Len(s))

\* ---------------------------------------------------------------------
\* Inputs
\* ---------------------------------------------------------------------

Rep(b, n) == [i \in 1..n |-> b]

\* "Hello World!"
HelloWorld == <<72, 101, 108, 108, 111, 32, 87, 111, 114, 108, 100, 33>>

\* "\x1f ~\x7f\né\0A": the edges of the printable range, a newline, a
\* two-byte UTF-8 character and NUL
Mixed == <<31, 32, 126, 127, 10, 195, 169, 0, 65>>

StringInputs ==
    { HelloWorld, Mixed, Rep(97, BUFFER_WIDTH), Rep(98, BUFFER_WIDTH + 5),
      <<10, 10>> }

ByteInputs == {0, 10, 65, 126, 255}

\* What the display memory may hold when the writer is constructed: the
\* program never clears it.
BlankBuffer == [r \in Rows |-> [c \in Cols |-> ScreenChar(SPACE, 7)]]
PatternBuffer ==
    [r \in Rows |-> [c \in Cols |->
        ScreenChar((IF c % 2 = 0 THEN 65 ELSE 97) + r, 7)]]
InitialBuffers == {BlankBuffer, PatternBuffer}

\* ---------------------------------------------------------------------
\* Spec: calls on one Writer
\* ---------------------------------------------------------------------

\* the emulator is running the kernel
Running == [exited |-> FALSE, status |-> 0]

\* execution contexts of the one processor: the main-line code, an
\* interrupt handler on top of it, the panic handler on top of either
Ctx == {"main", "isr", "panic"}

\* the writer value seen by a call that starts now
Self ==
    [chars |-> chars, column_position |-> column_position,
     color_code |-> color_code, cell_writes |-> <<>>, scrolls |-> 0]

Commit(name, arg, w) ==
    /\ chars' = w.chars
    /\ column_position' = w.column_position
    /\ color_code' = w.color_code
    /\ cell_writes' = w.cell_writes
    /\ scrolls' = w.scrolls
    /\ last_op' = [name |-> name, arg |-> arg]
    /\ old_chars' = chars
    /\ old_column' = column_position
    /\ nops' = nops + 1
    /\ UNCHANGED <<lockVars, pc, printVars, interrupts, kernelVars>>

\* the Writer of lazy_static! WRITER (vga_buffer.rs:207-211)
Init ==
    /\ chars \in InitialBuffers
    /\ column_position = 0
    /\ color_code = ColorCode_new(Yellow, Black)
    /\ last_op = [name |-> "none", arg |-> <<>>]
    /\ old_chars = chars
    /\ old_column = 0
    /\ cell_writes = <<>>
    /\ scrolls = 0
    /\ nops = 0
    /\ writer_ready = TRUE
    /\ lock = FALSE
    /\ holder = "none"
    /\ pc = [c \in Ctx |-> "off"]
    /\ ret = [c \in Ctx |-> "off"]
    /\ out = [c \in Ctx |-> <<>>]
    /\ callid = [c \in Ctx |-> 0]
    /\ calls = 0
    /\ emitted = <<>>
    /\ interrupts = 0
    /\ build = "normal"
    /\ entry = "main"
    /\ tests = <<>>
    /\ idx = 0
    /\ trace = <<>>
    /\ host_status = Running

CallWriteByte ==
    /\ nops < MaxOps
    /\ \E b \in ByteInputs : Commit("write_byte", <<b>>, write_byte(Self, b))

CallWriteString ==
    /\ nops < MaxOps
    /\ \E s \in StringInputs : Commit("write_string", s, write_string(Self, s))

Next == CallWriteByte \/ CallWriteString

Spec == Init /\ [][Next]_vars

\* ---------------------------------------------------------------------
\* ColorSpec: ColorCode::new on every pair of colors
\* ---------------------------------------------------------------------

\* the arguments of the call are chosen; nothing is computed yet
ColorInit ==
    /\ chars = BlankBuffer
    /\ column_position = 0
    /\ color_code = 0
    /\ \E fg \in Colors, bg \in Colors :
          last_op = [name |-> "ColorCode_new", arg |-> <<fg, bg>>]
    /\ old_chars = chars
    /\ old_column = 0
    /\ cell_writes = <<>>
    /\ scrolls = 0
    /\ nops = 0
    /\ writer_ready = FALSE
    /\ lock = FALSE
    /\ holder = "none"
    /\ pc = [c \in Ctx |-> "off"]
    /\ ret = [c \in Ctx |-> "off"]
    /\ out = [c \in Ctx |-> <<>>]
    /\ callid = [c \in Ctx |-> 0]
    /\ calls = 0
    /\ emitted = <<>>
    /\ interrupts = 0
    /\ build = "normal"
    /\ entry = "main"
    /\ tests = <<>>
    /\ idx = 0
    /\ trace = <<>>
    /\ host_status = Running

\* ColorCode::new(foreground, background) returns
CallColorCodeNew ==
    /\ nops = 0
    /\ color_code' = ColorCode_new(last_op.arg[1], last_op.arg[2])
    /\ nops' = 1
    /\ UNCHANGED <<chars, column_position, last_op, old_chars, old_column,
                   cell_writes, scrolls, lockVars, pc, printVars, interrupts,
                   kernelVars>>

ColorNext == CallColorCodeNew

ColorSpec == ColorInit /\ [][ColorNext]_vars

\* ---------------------------------------------------------------------
\* The global writer: lazy_static WRITER, spin::Mutex, _print
\* ---------------------------------------------------------------------

\* the context the processor is executing: a handler runs on top of the
\* code it interrupted, which resumes only when the handler returns
Top ==
    IF pc["panic"] # "off" THEN "panic"
    ELSE IF pc["isr"] # "off" THEN "isr"
    ELSE "main"

Runs(ctx) == host_status = Running /\ Top = ctx

\* mutant of try_lock: the flag is taken without being tested
try_lock_unconditional(l) == [ok |-> TRUE, lock |-> TRUE]

\* one attempt of Mutex::lock: compare-and-swap of the flag, false -> true
try_lock(l) == [ok |-> (l = FALSE), lock |-> TRUE]

\* a call of _print(args) by ctx, where the formatted text of args is text
\* and the caller continues at after
CallPrint(ctx, text, after) ==
    /\ pc' = [pc EXCEPT ![ctx] = "print_deref"]
    /\ ret' = [ret EXCEPT ![ctx] = after]
    /\ out' = [out EXCEPT ![ctx] = text]
    /\ calls' = calls + 1
    /\ callid' = [callid EXCEPT ![ctx] = calls + 1]

\* mutant of PrintDeref: every use constructs the Writer again
PrintDeref_again(ctx) ==
    /\ Runs(ctx)
    /\ pc[ctx] = "print_deref"
    /\ column_position' = 0
    /\ color_code' = ColorCode_new(Yellow, Black)
    /\ writer_ready' = TRUE
    /\ pc' = [pc EXCEPT ![ctx] = "print_lock"]
    /\ UNCHANGED <<chars, histVars, lock, holder, printVars, interrupts, kernelVars>>

\* WRITER (deref of the lazy static): the first use constructs the Writer
PrintDeref(ctx) ==
    /\ Runs(ctx)
    /\ pc[ctx] = "print_deref"
    /\ IF writer_ready
       THEN UNCHANGED <<column_position, color_code>>
       ELSE /\ column_position' = 0
            /\ color_code' = ColorCode_new(Yellow, Black)
    /\ writer_ready' = TRUE
    /\ pc' = [pc EXCEPT ![ctx] = "print_lock"]
    /\ UNCHANGED <<chars, histVars, lock, holder, printVars, interrupts, kernelVars>>

\* .lock(): the attempt that finds the flag free takes it
PrintLock(ctx) ==
    /\ Runs(ctx)
    /\ pc[ctx] = "print_lock"
    /\ try_lock(lock).ok
    /\ lock' = try_lock(lock).lock
    /\ holder' = ctx
    /\ pc' = [pc EXCEPT ![ctx] = "print_write"]
    /\ UNCHANGED <<writerVars, histVars, writer_ready, printVars, interrupts, kernelVars>>

\* .lock(): the attempt that finds the flag taken changes nothing and is
\* made again
PrintSpin(ctx) ==
    /\ Runs(ctx)
    /\ pc[ctx] = "print_lock"
    /\ ~try_lock(lock).ok
    /\ UNCHANGED vars

\* .write_fmt(args): the next byte of the text goes through write_string
PrintWrite(ctx) ==
    /\ Runs(ctx)
    /\ pc[ctx] = "print_write"
    /\ out[ctx] # <<>>
    /\ \E w \in {write_string_byte(Self, Head(out[ctx]))} :
           /\ chars' = w.chars
           /\ column_position' = w.column_position
           /\ color_code' = w.color_code
    /\ out' = [out EXCEPT ![ctx] = Tail(@)]
    /\ emitted' = Append(emitted, [ctx |-> ctx, call |-> callid[ctx]])
    /\ UNCHANGED <<histVars, lockVars, pc, ret, callid, calls, interrupts, kernelVars>>

\* write_fmt returned Ok, unwrap() passes, the guard is dropped at the end
\* of the statement and _print returns
PrintUnlock(ctx) ==
    /\ Runs(ctx)
    /\ pc[ctx] = "print_write"
    /\ out[ctx] = <<>>
    /\ lock' = FALSE
    /\ holder' = "none"
    /\ pc' = [pc EXCEPT ![ctx] = ret[ctx]]
    /\ UNCHANGED <<writerVars, histVars, writer_ready, printVars, interrupts, kernelVars>>

\* ---------------------------------------------------------------------
\* PrintSpec: print calls of the main-line code and of an interrupt handler
\* ---------------------------------------------------------------------

\* "Hello World!\n"
HelloLine == HelloWorld \o <<NEWLINE>>
\* the line an interrupt handler prints: "INT\n"
HandlerLine == <<73, 78, 84, 10>>

PrintInit ==
    /\ chars \in InitialBuffers
    /\ column_position = 0
    /\ color_code = 0
    /\ last_op = [name |-> "none", arg |-> <<>>]
    /\ old_chars = chars
    /\ old_column = 0
    /\ cell_writes = <<>>
    /\ scrolls = 0
    /\ nops = 0
    /\ writer_ready = FALSE
    /\ lock = FALSE
    /\ holder = "none"
    /\ pc = [c \in Ctx |-> IF c = "main" THEN "idle" ELSE "off"]
    /\ ret = [c \in Ctx |-> "off"]
    /\ out = [c \in Ctx |-> <<>>]
    /\ callid = [c \in Ctx |-> 0]
    /\ calls = 0
    /\ emitted = <<>>
    /\ interrupts = 0
    /\ build = "normal"
    /\ entry = "main"
    /\ tests = <<>>
    /\ idx = 0
    /\ trace = <<>>
    /\ host_status = Running

\* the main-line code calls println!
MainPrint ==
    /\ Runs("main")
    /\ pc["main"] = "idle"
    /\ calls - interrupts < MaxPrints
    /\ CallPrint("main", HelloLine, "idle")
    /\ UNCHANGED <<writerVars, histVars, lockVars, emitted, interrupts, kernelVars>>

\* an interrupt arrives, at any instruction of the main-line code, and its
\* handler calls println!
Interrupt ==
    /\ Runs("main")
    /\ interrupts < MaxInterrupts
    /\ interrupts' = interrupts + 1
    /\ CallPrint("isr", HandlerLine, "iret")
    /\ UNCHANGED <<writerVars, histVars, lockVars, emitted, kernelVars>>

\* the handler returns to the code it interrupted
InterruptReturn ==
    /\ Runs("isr")
    /\ pc["isr"] = "iret"
    /\ pc' = [pc EXCEPT !["isr"] = "off"]
    /\ UNCHANGED <<writerVars, histVars, lockVars, printVars, interrupts, kernelVars>>

PrintStep ==
    \E ctx \in Ctx :
        \/ PrintDeref(ctx)
        \/ PrintLock(ctx)
        \/ PrintSpin(ctx)
        \/ PrintWrite(ctx)
        \/ PrintUnlock(ctx)

PrintNext == MainPrint \/ Interrupt \/ InterruptReturn \/ PrintStep

PrintSpec == PrintInit /\ [][PrintNext]_vars

\* ---------------------------------------------------------------------
\* Exit port, serial channel, test harness, panic handlers
\* ---------------------------------------------------------------------

\* exit_code as u32: the discriminant of the repr(u32) enum
QemuExitCode(code) ==
    IF code = "Success" THEN QEMU_SUCCESS ELSE QEMU_FAILED

\* mutant of exit_qemu: both codes written as the same value
exit_qemu_same_value(code) ==
    [kind |-> "port", text |-> code, arg |-> QEMU_SUCCESS, addr |-> EXIT_PORT]

\* exit_qemu: one 32-bit write of the code to port 0xf4
exit_qemu(code) ==
    [kind |-> "port", text |-> code, arg |-> QemuExitCode(code), addr |-> EXIT_PORT]

\* what the emulator's exit device makes of a value written to the port:
\* it ends the run with status (value << 1) | 1
HostStatus(value) == BitOr(value * 2, 1, 16)

\* one serial_print!/serial_println! call: the diagnostic channel receives
\* the text
Serial(text, arg) == [kind |-> "serial", text |-> text, arg |-> arg, addr |-> 0]

\* self(): the body of registered case i starts to run
CaseCall(i) == [kind |-> "run", text |-> "call", arg |-> i, addr |-> 0]

Emit(e) == trace' = Append(trace, e)

\* the panic handler takes over the processor; there is no unwinding, so
\* what the panicking code holds stays held
EnterPanic ==
    pc' = [pc EXCEPT !["panic"] = IF build = "test" THEN "tp_failed" ELSE "np_start"]

SetMain(label) == pc' = [pc EXCEPT !["main"] = label]

\* mutant of StartPrint: _start goes to init() without printing
StartPrint_skipped ==
    /\ Runs("main")
    /\ pc["main"] = "start"
    /\ SetMain("init")
    /\ UNCHANGED <<writerVars, histVars, lockVars, printVars, interrupts, kernelVars>>

\* main.rs _start: println!("Hello World{}", "!")
StartPrint ==
    /\ Runs("main")
    /\ pc["main"] = "start"
    /\ CallPrint("main", HelloLine, "init")
    /\ UNCHANGED <<writerVars, histVars, lockVars, emitted, interrupts, kernelVars>>

\* init() returns
HwInit ==
    /\ Runs("main")
    /\ pc["main"] = "init"
    /\ SetMain(IF entry = "main" THEN "int3" ELSE "test_main")
    /\ UNCHANGED <<writerVars, histVars, lockVars, printVars, interrupts, kernelVars>>

\* init() meets a fatal condition
HwInitFails ==
    /\ Runs("main")
    /\ pc["main"] = "init"
    /\ EnterPanic
    /\ UNCHANGED <<writerVars, histVars, lockVars, printVars, interrupts, kernelVars>>

\* int3: the breakpoint handler runs and returns
Breakpoint ==
    /\ Runs("main")
    /\ pc["main"] = "int3"
    /\ SetMain(IF build = "test" THEN "test_main" ELSE "halt")
    /\ UNCHANGED <<writerVars, histVars, lockVars, printVars, interrupts, kernelVars>>

\* a fatal condition while the caller is inside _print with the lock held:
\* the unwrap() of a formatting error, or a processor exception that the
\* exception handlers turn into a panic
PrintFault ==
    /\ Runs("main")
    /\ pc["main"] = "print_write"
    /\ EnterPanic
    /\ UNCHANGED <<writerVars, histVars, lockVars, printVars, interrupts, kernelVars>>

\* test_runner: the summary line
RunnerSummary ==
    /\ Runs("main")
    /\ pc["main"] = "test_main"
    /\ Emit(Serial("Running", Len(tests)))
    /\ idx' = 1
    /\ SetMain(IF Len(tests) >= 1 THEN "case_name" ELSE "exit_success")
    /\ UNCHANGED <<writerVars, histVars, lockVars, printVars, interrupts,
                   build, entry, tests, host_status>>

\* Testable::run: the name of the case
CaseName ==
    /\ Runs("main")
    /\ pc["main"] = "case_name"
    /\ Emit(Serial("name", idx))
    /\ SetMain("case_body")
    /\ UNCHANGED <<writerVars, histVars, lockVars, printVars, interrupts,
                   build, entry, tests, idx, host_status>>

\* Testable::run: self() returns
CaseReturns ==
    /\ Runs("main")
    /\ pc["main"] = "case_body"
    /\ tests[idx] = "pass"
    /\ Emit(CaseCall(idx))
    /\ SetMain("case_ok")
    /\ UNCHANGED <<writerVars, histVars, lockVars, printVars, interrupts,
                   build, entry, tests, idx, host_status>>

\* Testable::run: self() panics
CasePanics ==
    /\ Runs("main")
    /\ pc["main"] = "case_body"
    /\ tests[idx] = "panic"
    /\ Emit(CaseCall(idx))
    /\ EnterPanic
    /\ UNCHANGED <<writerVars, histVars, lockVars, printVars, interrupts,
                   build, entry, tests, idx, host_status>>

\* mutant of CaseOk: the loop steps over the next case
CaseOk_skips_next ==
    /\ Runs("main")
    /\ pc["main"] = "case_ok"
    /\ Emit(Serial("[ok]", idx))
    /\ idx' = idx + 2
    /\ SetMain(IF idx + 2 <= Len(tests) THEN "case_name" ELSE "exit_success")
    /\ UNCHANGED <<writerVars, histVars, lockVars, printVars, interrupts,
                   build, entry, tests, host_status>>

\* Testable::run: the ok marker; then the next turn of test_runner's loop
CaseOk ==
    /\ Runs("main")
    /\ pc["main"] = "case_ok"
    /\ Emit(Serial("[ok]", idx))
    /\ idx' = idx + 1
    /\ SetMain(IF idx + 1 <= Len(tests) THEN "case_name" ELSE "exit_success")
    /\ UNCHANGED <<writerVars, histVars, lockVars, printVars, interrupts,
                   build, entry, tests, host_status>>

\* test_runner: exit_qemu(Success); then test_main returns into loop {}
ExitSuccess ==
    /\ Runs("main")
    /\ pc["main"] = "exit_success"
    /\ Emit(exit_qemu("Success"))
    /\ SetMain("halt")
    /\ UNCHANGED <<writerVars, histVars, lockVars, printVars, interrupts,
                   build, entry, tests, idx, host_status>>

\* mutant of TestPanicFailed: the handler goes to exit_qemu without printing
TestPanicFailed_silent ==
    /\ Runs("panic")
    /\ pc["panic"] = "tp_failed"
    /\ pc' = [pc EXCEPT !["panic"] = "tp_exit"]
    /\ UNCHANGED <<writerVars, histVars, lockVars, printVars, interrupts, kernelVars>>

\* test_panic_handler: serial_println!("[failed]\n")
TestPanicFailed ==
    /\ Runs("panic")
    /\ pc["panic"] = "tp_failed"
    /\ Emit(Serial("[failed]", 0))
    /\ pc' = [pc EXCEPT !["panic"] = "tp_error"]
    /\ UNCHANGED <<writerVars, histVars, lockVars, printVars, interrupts,
                   build, entry, tests, idx, host_status>>

\* test_panic_handler: serial_println!("Error: {}\n", info)
TestPanicError ==
    /\ Runs("panic")
    /\ pc["panic"] = "tp_error"
    /\ Emit(Serial("Error", 0))
    /\ pc' = [pc EXCEPT !["panic"] = "tp_exit"]
    /\ UNCHANGED <<writerVars, histVars, lockVars, printVars, interrupts,
                   build, entry, tests, idx, host_status>>

\* mutant of TestPanicExit: the handler returns to the panicking code
\* instead of looping
TestPanicExit_returns ==
    /\ Runs("panic")
    /\ pc["panic"] = "tp_exit"
    /\ Emit(exit_qemu("Failed"))
    /\ pc' = [pc EXCEPT !["panic"] = "off"]
    /\ UNCHANGED <<writerVars, histVars, lockVars, printVars, interrupts,
                   build, entry, tests, idx, host_status>>

\* test_panic_handler: exit_qemu(Failed); then loop {}
TestPanicExit ==
    /\ Runs("panic")
    /\ pc["panic"] = "tp_exit"
    /\ Emit(exit_qemu("Failed"))
    /\ pc' = [pc EXCEPT !["panic"] = "tp_halt"]
    /\ UNCHANGED <<writerVars, histVars, lockVars, printVars, interrupts,
                   build, entry, tests, idx, host_status>>

\* "panic\n": the text of println!("{}", info)
PanicLine == <<112, 97, 110, 105, 99, 10>>

\* main.rs panic (not test): println!("{}", info); then loop {}
PanicPrint ==
    /\ Runs("panic")
    /\ pc["panic"] = "np_start"
    /\ CallPrint("panic", PanicLine, "np_halt")
    /\ UNCHANGED <<writerVars, histVars, lockVars, emitted, interrupts, kernelVars>>

\* loop {}: one more turn of an empty loop
HaltLoop ==
    /\ host_status = Running
    /\ pc[Top] \in {"halt", "np_halt", "tp_halt"}
    /\ UNCHANGED vars

\* the emulator honours the last write to the exit port and ends the run
HostExit ==
    /\ host_status = Running
    /\ trace # <<>>
    /\ trace[Len(trace)].kind = "port"
    /\ trace[Len(trace)].addr = EXIT_PORT
    /\ host_status' = [exited |-> TRUE, status |-> HostStatus(trace[Len(trace)].arg)]
    /\ UNCHANGED <<writerVars, histVars, lockVars, pc, printVars, interrupts,
                   build, entry, tests, idx, trace>>

\* ---------------------------------------------------------------------
\* KernelSpec: a run of the kernel from its entry point
\* ---------------------------------------------------------------------

RECURSIVE SeqsUpTo(_, _)
SeqsUpTo(S, n) ==
    IF n = 0 THEN {<<>>}
    ELSE LET shorter == SeqsUpTo(S, n - 1)
         IN  shorter \cup {Append(s, x) : s \in shorter, x \in S}

\* the three ways the crate is built and entered: the kernel, the kernel's
\* tests, the library's tests
Configurations ==
    { [build |-> "normal", entry |-> "main"],
      [build |-> "test", entry |-> "main"],
      [build |-> "test", entry |-> "lib"] }

KernelInit ==
    /\ chars = BlankBuffer
    /\ column_position = 0
    /\ color_code = 0
    /\ last_op = [name |-> "none", arg |-> <<>>]
    /\ old_chars = chars
    /\ old_column = 0
    /\ cell_writes = <<>>
    /\ scrolls = 0
    /\ nops = 0
    /\ writer_ready = FALSE
    /\ lock = FALSE
    /\ holder = "none"
    /\ \E cfg \in Configurations :
          /\ build = cfg.build
          /\ entry = cfg.entry
          /\ tests \in (IF cfg.build = "test"
                        THEN SeqsUpTo({"pass", "panic"}, MaxTests)
                        ELSE {<<>>})
          /\ pc = [c \in Ctx |->
                      IF c # "main" THEN "off"
                      ELSE IF cfg.entry = "main" THEN "start" ELSE "init"]
    /\ ret = [c \in Ctx |-> "off"]
    /\ out = [c \in Ctx |-> <<>>]
    /\ callid = [c \in Ctx |-> 0]
    /\ calls = 0
    /\ emitted = <<>>
    /\ interrupts = 0
    /\ idx = 0
    /\ trace = <<>>
    /\ host_status = Running

KernelNext ==
    \/ StartPrint \/ HwInit \/ HwInitFails \/ Breakpoint \/ PrintFault
    \/ RunnerSummary \/ CaseName \/ CaseReturns \/ CasePanics \/ CaseOk
    \/ ExitSuccess
    \/ TestPanicFailed \/ TestPanicError \/ TestPanicExit
    \/ PanicPrint \/ HaltLoop \/ HostExit
    \/ PrintStep

KernelSpec == KernelInit /\ [][KernelNext]_vars

\* the processor keeps executing instructions
KernelFairSpec == KernelSpec /\ WF_vars(KernelNext)

\* ---------------------------------------------------------------------
\* Claims about the Writer (checked under Spec)
\* ---------------------------------------------------------------------

LAST_ROW == BUFFER_HEIGHT - 1

IsPrintable(b) == b >= 32 /\ b <= 126
NotNewline(b) == b # NEWLINE
\* what the claims expect a non-newline input byte to be shown as
Shown(b) == IF IsPrintable(b) THEN b ELSE 254
NoNewlineIn(s) == \A i \in DOMAIN s : s[i] # NEWLINE
Asciis(ws) == [i \in DOMAIN ws |-> ws[i].c.ascii_character]

\* C3: on a writer that starts at column 0, after any sequence of
\* write_string and write_byte calls the column is within 0..BUFFER_WIDTH
\* and every cell write of the call addressed the last row at a column
\* below BUFFER_WIDTH.
C3_ColumnAndCellsInRange ==
    /\ column_position \in 0..BUFFER_WIDTH
    /\ \A i \in DOMAIN cell_writes :
          /\ cell_writes[i].row = LAST_ROW
          /\ cell_writes[i].col \in 0..(BUFFER_WIDTH - 1)

\* a byte was written by a call that found the row completely full
C3_Witness ==
    /\ old_column = BUFFER_WIDTH
    /\ last_op.name = "write_byte"
    /\ cell_writes # <<>>

\* C4: from column 0, BUFFER_WIDTH non-newline bytes fill columns 0..79 of
\* the last row without a scroll; a non-newline byte arriving at a full row
\* scrolls exactly once and lands at column 0; an 85-byte string without
\* newlines leaves its first 80 bytes in row H-2 and the other 5 in columns
\* 0..4 of the last row.
C4_FullRowThenWrap ==
    /\ (/\ last_op.name = "write_string"
        /\ old_column = 0
        /\ Len(last_op.arg) = BUFFER_WIDTH
        /\ NoNewlineIn(last_op.arg))
       => /\ scrolls = 0
          /\ column_position = BUFFER_WIDTH
          /\ \A c \in Cols :
                chars[LAST_ROW][c] = ScreenChar(Shown(last_op.arg[c + 1]), color_code)
          /\ \A r \in 0..(LAST_ROW - 1) : chars[r] = old_chars[r]
    /\ (/\ last_op.name = "write_byte"
        /\ old_column = BUFFER_WIDTH
        /\ last_op.arg[1] # NEWLINE)
       => /\ scrolls = 1
          /\ Len(cell_writes) = 1
          /\ cell_writes[1].row = LAST_ROW /\ cell_writes[1].col = 0
          /\ chars[LAST_ROW][0].ascii_character = last_op.arg[1]
          /\ chars[LAST_ROW - 1] = old_chars[LAST_ROW]
          /\ column_position = 1
    /\ (/\ last_op.name = "write_string"
        /\ old_column = 0
        /\ Len(last_op.arg) = BUFFER_WIDTH + 5
        /\ NoNewlineIn(last_op.arg))
       => /\ scrolls = 1
          /\ column_position = 5
          /\ \A c \in Cols :
                chars[LAST_ROW - 1][c] = ScreenChar(Shown(last_op.arg[c + 1]), color_code)
          /\ \A c \in 0..4 :
                chars[LAST_ROW][c] =
                    ScreenChar(Shown(last_op.arg[BUFFER_WIDTH + c + 1]), color_code)
          /\ \A c \in 5..(BUFFER_WIDTH - 1) :
                chars[LAST_ROW][c] = ScreenChar(SPACE, color_code)

\* an 85-byte string was written from column 0
C4_Witness ==
    /\ last_op.name = "write_string"
    /\ old_column = 0
    /\ Len(last_op.arg) = BUFFER_WIDTH + 5
    /\ NoNewlineIn(last_op.arg)
    /\ nops >= 2

\* C5: new_line has the effect of a simultaneous shift: each row r >= 1
\* moves to row r-1 unchanged, the old row 0 is gone, the last row is all
\* blanks of the current color, and the column is 0.  (new_line is private;
\* write_byte of the newline byte is exactly one new_line.)
C5_NewLineIsShift ==
    (last_op.name = "write_byte" /\ last_op.arg = <<NEWLINE>>)
    => /\ \A r \in 1..LAST_ROW : \A c \in Cols :
             chars[r - 1][c] = old_chars[r][c]
       /\ \A c \in Cols : chars[LAST_ROW][c] = ScreenChar(SPACE, color_code)
       /\ column_position = 0

\* a new_line on a buffer whose rows all differ, with the column not at 0
C5_Witness ==
    /\ last_op.name = "write_byte" /\ last_op.arg = <<NEWLINE>>
    /\ old_column > 0
    /\ \A r1, r2 \in Rows : r1 # r2 => old_chars[r1] # old_chars[r2]

\* C6: write_string stores each byte of 0x20..0x7e unchanged, treats each
\* newline as a newline without writing a cell, stores every other byte as
\* 0xfe, and writes exactly one cell per non-newline byte, in input order.
C6_WriteStringFilters ==
    (last_op.name = "write_string")
    => LET s == last_op.arg
           kept == SelectSeq(s, NotNewline)
       IN  /\ Len(cell_writes) = Len(kept)
           /\ Asciis(cell_writes) = [i \in DOMAIN kept |-> Shown(kept[i])]
           /\ scrolls >= Len(s) - Len(kept)
           /\ cell_writes # <<>> =>
                 LET w == cell_writes[Len(cell_writes)]
                 IN  chars[w.row][w.col] = w.c

\* a string with printable bytes, a newline and unprintable bytes was written
C6_Witness ==
    /\ last_op.name = "write_string"
    /\ \E i \in DOMAIN last_op.arg : last_op.arg[i] = NEWLINE
    /\ \E i \in DOMAIN last_op.arg : IsPrintable(last_op.arg[i])
    /\ \E i \in DOMAIN last_op.arg :
          ~IsPrintable(last_op.arg[i]) /\ last_op.arg[i] # NEWLINE

UnprintableByteCall ==
    /\ last_op.name = "write_byte"
    /\ ~IsPrintable(last_op.arg[1])
    /\ last_op.arg[1] # NEWLINE

\* C7 as stated: write_byte called directly with a byte outside 0x20..0x7e
\* that is not the newline writes a cell with ascii 0xfe and the current
\* color.
C7_Original ==
    UnprintableByteCall
    => /\ Len(cell_writes) = 1
       /\ cell_writes[1].c = ScreenChar(254, color_code)

\* C7 amended: write_byte called directly with such a byte writes a cell
\* holding that byte unchanged, with the current color; the substitution
\* by 0xfe is made by write_string, before it calls write_byte.
C7_Amended ==
    /\ UnprintableByteCall
       => /\ Len(cell_writes) = 1
          /\ cell_writes[1].c = ScreenChar(last_op.arg[1], color_code)
          /\ chars[cell_writes[1].row][cell_writes[1].col] = cell_writes[1].c
    /\ (last_op.name = "write_string")
       => LET kept == SelectSeq(last_op.arg, NotNewline)
          IN  /\ Len(cell_writes) = Len(kept)
              /\ \A i \in DOMAIN kept :
                    ~IsPrintable(kept[i])
                    => cell_writes[i].c = ScreenChar(254, color_code)

\* write_byte was called directly with the byte 0x00
C7_Witness ==
    /\ UnprintableByteCall
    /\ last_op.arg[1] = 0
    /\ cell_writes # <<>>

\* ---------------------------------------------------------------------
\* Claims about the global writer (checked under PrintSpec)
\* ---------------------------------------------------------------------

\* ctx is inside the writer: past .lock() and not yet out of _print
InWriter(ctx) == pc[ctx] = "print_write"

\* the entries of one call are adjacent in the sequence
Contiguous(seq) ==
    \A i \in 1..(Len(seq) - 1) :
        seq[i] # seq[i + 1]
        => \A k \in (i + 1)..Len(seq) : seq[k] # seq[i]

\* C1: all screen output goes through the one writer behind the one lock:
\* at most one caller is inside the writer at a time and it holds the lock,
\* the bytes of one print call are never interleaved with those of another,
\* and the cells and the cursor change only in a step of the lock holder.
C1_PrintCallsDoNotInterleave ==
    /\ [](/\ \A c1, c2 \in Ctx : (InWriter(c1) /\ InWriter(c2)) => c1 = c2
          /\ \A c \in Ctx : InWriter(c) => (lock /\ holder = c)
          /\ Contiguous(emitted))
    /\ [][(chars' # chars \/ column_position' # column_position)
          => (lock /\ holder = Top /\ InWriter(Top))]_vars

\* the interrupt handler's call found the main-line code inside the writer,
\* part of its line written
C1_Witness ==
    /\ InWriter("main")
    /\ pc["isr"] = "print_lock"
    /\ emitted # <<>>
    /\ out["main"] # <<>>

\* ---------------------------------------------------------------------
\* Claims about the test harness, the exit port and the panic handlers
\* (checked under KernelSpec and KernelFairSpec)
\* ---------------------------------------------------------------------

IsRun(e) == e.kind = "run"
IsPort(e) == e.kind = "port"
CasesRun == SelectSeq(trace, IsRun)
Signalled(code) == \E j \in DOMAIN trace : IsPort(trace[j]) /\ trace[j].text = code
AllPass == \A i \in DOMAIN tests : tests[i] = "pass"
SummaryPrinted ==
    \E j \in DOMAIN trace : trace[j].kind = "serial" /\ trace[j].text = "Running"

\* C2: test_runner runs the registered cases in registration order; the
\* first fatal case stops the run, Failure is signalled and no later case
\* ever runs; when no case is fatal Success is signalled exactly once, and
\* only after every case has run.
C2_RunnerOrderAndSignal ==
    /\ [](/\ \A i \in DOMAIN CasesRun : CasesRun[i].arg = i
          /\ \A i \in DOMAIN CasesRun : i < Len(CasesRun) => tests[i] = "pass"
          /\ \A j \in DOMAIN trace :
                (IsPort(trace[j]) /\ trace[j].text = "Failed")
                => \A k \in DOMAIN trace : k > j => ~IsRun(trace[k])
          /\ \A j \in DOMAIN trace :
                (IsPort(trace[j]) /\ trace[j].text = "Success")
                => /\ AllPass
                   /\ Len(CasesRun) = Len(tests)
                   /\ \A k \in DOMAIN trace :
                         /\ IsRun(trace[k]) => k < j
                         /\ (IsPort(trace[k]) /\ k # j) => trace[k].text # "Success"
                   /\ ~Signalled("Failed"))
    /\ (\E i \in DOMAIN CasesRun : tests[CasesRun[i].arg] = "panic")
          ~> Signalled("Failed")
    /\ (SummaryPrinted /\ AllPass) ~> Signalled("Success")

\* three cases, the second fatal: the run has ended in the fail handler
C2_Witness ==
    /\ tests = <<"pass", "panic", "pass">>
    /\ Len(CasesRun) = 2
    /\ pc["panic"] = "tp_halt"
    /\ Signalled("Failed")

\* a fatal condition (a panic) in a normal build
FatalInNormalBuild == build = "normal" /\ pc["panic"] # "off"

\* the text of the diagnostic went through the writer and stands in the
\* row above the last one (it ends in a newline)
DiagnosticOnScreen ==
    /\ Cardinality({i \in DOMAIN emitted : emitted[i].ctx = "panic"}) = Len(PanicLine)
    /\ \E c0 \in Cols :
          \A i \in 1..(Len(PanicLine) - 1) :
              /\ c0 + i - 1 \in Cols
              /\ chars[LAST_ROW - 1][c0 + i - 1].ascii_character = PanicLine[i]

\* C8 as stated: in a normal build, whenever a fatal condition occurs the
\* diagnostic is eventually written to the screen through the global
\* writer, after which the system stays in the halt loop forever; and no
\* exit signal is ever written to the port.
C8_Original ==
    /\ FatalInNormalBuild ~> (DiagnosticOnScreen /\ pc["panic"] = "np_halt")
    /\ [][(build = "normal" /\ pc["panic"] = "np_halt") => pc'["panic"] = "np_halt"]_vars
    /\ [](build = "normal" => \A j \in DOMAIN trace : ~IsPort(trace[j]))

Shape(e) == <<e.kind, e.text, IF e.kind = "port" THEN 0 ELSE e.arg>>

RECURSIVE ExpectedFrom(_)
\* what the claim expects of the run from case i on
ExpectedFrom(i) ==
    IF i > Len(tests) THEN << <<"port", "Success", 0>> >>
    ELSE IF tests[i] = "pass"
    THEN << <<"serial", "name", i>>, <<"run", "call", i>>, <<"serial", "[ok]", i>> >>
         \o ExpectedFrom(i + 1)
    ELSE << <<"serial", "name", i>>, <<"run", "call", i>>,
            <<"serial", "[failed]", 0>>, <<"serial", "Error", 0>>,
            <<"port", "Failed", 0>> >>

ExpectedTrace == << <<"serial", "Running", Len(tests)>> >> \o ExpectedFrom(1)

IsPrefix(s, full) ==
    /\ Len(s) <= Len(full)
    /\ \A i \in DOMAIN s : s[i] = full[i]

\* test_runner has printed its summary and is running, or has run, the cases
RunnerEntered ==
    /\ build = "test"
    /\ pc["main"] \in {"case_name", "case_body", "case_ok", "exit_success", "halt"}

\* C9: the output of a test run is ordered: the summary line first; for
\* each case its name before it runs and the ok marker only after it
\* returned; for a fatal case the failure marker and the diagnostic after
\* its name and before the Failure signal, no ok marker for it and no name
\* of a later case.
C9_TraceOrdered ==
    RunnerEntered
    => /\ trace # <<>>
       /\ IsPrefix([i \in DOMAIN trace |-> Shape(trace[i])], ExpectedTrace)

\* three cases, the second fatal, the Failure signal written
C9_Witness ==
    /\ RunnerEntered
    /\ tests = <<"pass", "panic", "pass">>
    /\ Len(trace) = Len(ExpectedTrace)

\* C10: the two exit codes are distinct values written as they are to port
\* 0xf4, and the emulator's status (value << 1) | 1 is 0x21 for Success
\* (0x10) and 0x23 for Failure (0x11).
C10_ExitCodes ==
    /\ \A j \in DOMAIN trace :
          IsPort(trace[j])
          => /\ trace[j].addr = 244
             /\ trace[j].text = "Success"
                => (trace[j].arg = 16 /\ HostStatus(trace[j].arg) = 33)
             /\ trace[j].text = "Failed"
                => (trace[j].arg = 17 /\ HostStatus(trace[j].arg) = 35)
    /\ host_status.exited
       => /\ Signalled("Success") => host_status.status = 33
          /\ Signalled("Failed") => host_status.status = 35
          /\ host_status.status \in {33, 35}

\* the emulator ended a run in which a case was fatal
C10_Witness ==
    /\ host_status.exited
    /\ host_status.status = 35
    /\ Len(CasesRun) >= 1

\* ---------------------------------------------------------------------
\* Claims about ColorCode::new (checked under ColorSpec)
\* ---------------------------------------------------------------------

\* ColorCode_new has returned for the pair in last_op
ColorReturned == last_op.name = "ColorCode_new" /\ nops = 1

\* C11: for all fg, bg among the 16 colors, ColorCode::new(fg, bg) is
\* (bg << 4) | fg as an 8-bit value: the low nibble is fg, the high nibble
\* is bg, and distinct pairs give distinct codes.
C11_ColorCodePacks ==
    ColorReturned
    => LET fg == last_op.arg[1]
           bg == last_op.arg[2]
       IN  /\ color_code \in 0..255
           /\ color_code = bg * 16 + fg
           /\ color_code % 16 = fg
           /\ color_code \div 16 = bg
           /\ \A f2 \in Colors, b2 \in Colors :
                 ColorCode_new(f2, b2) = color_code => (f2 = fg /\ b2 = bg)

\* the code of White on White, both nibbles full
C11_Witness ==
    /\ ColorReturned
    /\ last_op.arg = <<15, 15>>
    /\ color_code = 255

\* ---------------------------------------------------------------------
\* More claims about the global writer (checked under PrintSpec)
\* ---------------------------------------------------------------------

\* the interrupt handler is in a print call while the main-line code it
\* interrupted holds the writer's lock
HandlerPrintsUnderLock == pc["isr"] \in {"print_deref", "print_lock"} /\ lock /\ holder = "main"

\* the handler has reached .lock() and found the lock held by the
\* main-line code
HandlerBlocked == pc["isr"] = "print_lock" /\ lock /\ holder = "main"

\* C12: an interrupt handler that prints while the interrupted main-line
\* code holds the writer's lock spins on the lock forever: from then on
\* no step changes anything, so the main-line code never resumes, the lock
\* is never released and no further output is produced; the handler's
\* call writes nothing.
C12_HandlerDeadlocks ==
    /\ []((lock /\ holder = "main" /\ pc["isr"] # "off")
          => /\ HandlerPrintsUnderLock
             /\ Top = "isr"
             /\ \A i \in DOMAIN emitted : emitted[i].call # callid["isr"])
    /\ [][HandlerBlocked => UNCHANGED vars]_vars

\* the handler spins while the main-line code is in the middle of its line
C12_Witness ==
    /\ HandlerBlocked
    /\ out["isr"] = HandlerLine
    /\ Len(out["main"]) \in 1..(Len(HelloLine) - 1)

\* ---------------------------------------------------------------------
\* Claims about the entry points (checked under KernelSpec)
\* ---------------------------------------------------------------------

\* init() has returned to the entry point
InitCompleted ==
    pc["main"] \in {"int3", "test_main", "case_name", "case_body", "case_ok",
                    "exit_success", "halt"}

\* init() has been called
InitCalled == pc["main"] = "init" \/ InitCompleted

\* the bytes the entry point's own print call has put through the writer
StartBytes == Cardinality({i \in DOMAIN emitted : emitted[i].ctx = "main"})

\* C13 as stated: on every run of the entry point init completes before
\* any text is written through the global writer, and in test builds the
\* test harness is invoked only after init.
C13_Original ==
    /\ emitted # <<>> => InitCompleted
    /\ (build = "test" /\ SummaryPrinted) => InitCompleted

\* C13 amended: the entry point of main.rs writes the line "Hello World!"
\* through the global writer first and calls init only when that line is
\* complete; the test entry point of lib.rs calls init first, with nothing
\* written before it; in test builds the test harness is invoked only
\* after init has completed.
C13_Amended ==
    /\ (entry = "main" /\ InitCalled)
       => /\ StartBytes = Len(HelloLine)
          /\ \A i \in 1..Len(HelloLine) : emitted[i].ctx = "main"
    /\ (entry = "main" /\ ~InitCalled /\ pc["panic"] = "off")
       => pc["main"] \in {"start", "print_deref", "print_lock", "print_write"}
    /\ (entry = "lib" /\ ~InitCompleted) => (emitted = <<>> /\ ~SummaryPrinted)
    /\ (build = "test" /\ SummaryPrinted) => InitCompleted

\* the kernel's tests: the line is on the screen, init has returned and the
\* harness has printed its summary
C13_Witness ==
    /\ build = "test" /\ entry = "main"
    /\ SummaryPrinted
    /\ StartBytes = Len(HelloLine)
    /\ InitCompleted

\* ---------------------------------------------------------------------
\* More claims about the Writer (checked under Spec)
\* ---------------------------------------------------------------------

NewlineByteCall == last_op.name = "write_byte" /\ last_op.arg = <<NEWLINE>>

\* C14 as stated: write_byte of the newline byte runs new_line exactly
\* once, writes no cell for the newline byte and returns with the column
\* unchanged.
C14_Original ==
    NewlineByteCall
    => /\ scrolls = 1
       /\ cell_writes = <<>>
       /\ column_position = old_column

\* C14 amended: write_byte of the newline byte runs new_line exactly once,
\* writes no cell for the newline byte and returns with the column at 0,
\* whatever it was: write_byte does not touch the column on this path,
\* new_line resets it.
C14_Amended ==
    NewlineByteCall
    => /\ scrolls = 1
       /\ cell_writes = <<>>
       /\ column_position = 0
       /\ \A r \in 1..LAST_ROW : chars[r - 1] = old_chars[r]

\* a newline byte written in the middle of a row
C14_Witness ==
    /\ NewlineByteCall
    /\ old_column \in 1..(BUFFER_WIDTH - 1)
    /\ column_position = 0

PlainByteCall ==
    /\ last_op.name = "write_byte"
    /\ last_op.arg[1] # NEWLINE
    /\ old_column < BUFFER_WIDTH

\* C15: write_byte of a non-newline byte while the column is below
\* BUFFER_WIDTH writes exactly one cell, the one at (last row, column), and
\* adds one to the column; every other cell and the color are unchanged;
\* and whatever the call, rows 0..H-2 change only through a scroll.
C15_OneCellOnly ==
    /\ [](/\ PlainByteCall
             => /\ chars = [old_chars EXCEPT ![LAST_ROW][old_column] =
                               ScreenChar(last_op.arg[1], color_code)]
                /\ Len(cell_writes) = 1
                /\ column_position = old_column + 1
                /\ scrolls = 0
          /\ scrolls = 0
             => \A r \in 0..(LAST_ROW - 1) : chars[r] = old_chars[r])
    /\ [][color_code' = color_code]_vars

\* a byte written in the middle of a row that already holds text
C15_Witness ==
    /\ PlainByteCall
    /\ old_column \in 1..(BUFFER_WIDTH - 1)
    /\ chars # old_chars
    /\ nops >= 2

\* what the claim expects of one byte b at st = [col, scrolls]: a newline
\* scrolls once and goes to column 0, a byte at a full row scrolls once and
\* goes to column 1
WalkByte(st, b) ==
    IF b = NEWLINE
    THEN [col |-> 0, scrolls |-> st.scrolls + 1]
    ELSE IF st.col = BUFFER_WIDTH
         THEN [col |-> 1, scrolls |-> st.scrolls + 1]
         ELSE [col |-> st.col + 1, scrolls |-> st.scrolls]

RECURSIVE WalkRange(_, _, _, _)
\* the same over the bytes lo..hi of s, in order
WalkRange(st, s, lo, hi) ==
    IF lo > hi THEN st
    ELSE IF lo = hi
         THEN WalkByte(st, s[lo])
         ELSE LET mid == (lo + hi) \div 2
              IN  Only({ WalkRange(st2, s, mid + 1, hi) :
                         st2 \in {WalkRange(st, s, lo, mid)} })

\* column and number of scrolls the claim expects after the bytes of s,
\* from column col0
Walk(s, col0) == WalkRange([col |-> col0, scrolls |-> 0], s, 1, Len(s))

\* C16: each newline byte scrolls exactly once, also at a full row, and n
\* consecutive newlines scroll n times; the scrolls of a call are the
\* newline bytes plus the non-newline bytes written at column BUFFER_WIDTH.
C16_OneScrollPerNewline ==
    /\ last_op.name \in {"write_byte", "write_string"}
       => /\ scrolls = Walk(last_op.arg, old_column).scrolls
          /\ column_position = Walk(last_op.arg, old_column).col
    /\ (NewlineByteCall /\ old_column = BUFFER_WIDTH) => scrolls = 1
    /\ (last_op.name = "write_string"
        /\ \A i \in DOMAIN last_op.arg : last_op.arg[i] = NEWLINE)
       => scrolls = Len(last_op.arg)

\* a newline byte arrived at a completely full row
C16_Witness ==
    /\ NewlineByteCall
    /\ old_column = BUFFER_WIDTH
    /\ scrolls = 1

\* ---------------------------------------------------------------------
\* Claims about the construction of the global writer (under PrintSpec)
\* ---------------------------------------------------------------------

\* a step in which a byte went through the writer
WriteStep == emitted' # emitted

\* C17: the global writer is constructed at most once, on first use, with
\* column 0 and color Yellow on Black (0x0e); nothing changes its color
\* afterwards, and every cell it writes, a character or the blanks of
\* clear_row, carries color 0x0e.
C17_ConstructedOnce ==
    /\ [](writer_ready => color_code = 14)
    /\ [](~writer_ready => (emitted = <<>> /\ lock = FALSE))
    /\ [][(~writer_ready /\ writer_ready')
          => (column_position' = 0 /\ color_code' = 14 /\ chars' = chars)]_vars
    /\ [][writer_ready
          => /\ writer_ready'
             /\ color_code' = color_code
             /\ (column_position' # column_position \/ chars' # chars) => WriteStep]_vars
    /\ [][WriteStep
          => IF column_position' = 0
             THEN \A c \in Cols : chars'[LAST_ROW][c] = ScreenChar(SPACE, 14)
             ELSE chars'[LAST_ROW][column_position' - 1].color_code = 14]_vars

\* the writer was used by a second call, made in the middle of a line
C17_Witness ==
    /\ writer_ready
    /\ calls >= 2
    /\ column_position > 0
    /\ pc["isr"] = "print_lock"

\* ---------------------------------------------------------------------
\* More claims about the test harness (checked under KernelSpec)
\* ---------------------------------------------------------------------

PortWrites == SelectSeq(trace, IsPort)

\* C18: in a test build at most one exit signal is written per run: once
\* the fail path has signalled Failure it stays in its halt loop for ever,
\* whether or not the host honours the signal, so no further case runs and
\* Success is never signalled; and once Success is signalled the entry point
\* halts for ever without another signal.
C18_AtMostOneSignal ==
    /\ [](/\ Len(PortWrites) <= 1
          /\ Signalled("Failed") => pc["panic"] = "tp_halt"
          /\ Signalled("Success") => (pc["main"] = "halt" /\ pc["panic"] = "off"))
    /\ [][(Signalled("Failed") \/ Signalled("Success"))
          => (pc' = pc /\ trace' = trace)]_vars

\* the library's tests, the first case fatal, Failure written and the
\* emulator still running
C18_Witness ==
    /\ entry = "lib"
    /\ Len(tests) >= 2 /\ tests[1] = "panic"
    /\ Signalled("Failed")
    /\ pc["panic"] = "tp_halt"
    /\ host_status = Running

\* ---------------------------------------------------------------------
\* Claims about the termination of _print (checked under KernelFairSpec)
\* ---------------------------------------------------------------------

\* ctx is inside a call of _print
InPrint(ctx) == pc[ctx] \in {"print_deref", "print_lock", "print_write"}

\* ctx has just called _print and the lock is free
CalledWithLockFree(ctx) == pc[ctx] = "print_deref" /\ ~lock

\* C19 as stated: a print call made when the writer lock is free always
\* terminates, whatever its finite input, and the lock is free again when
\* it returns, so consecutive calls from one context each complete without
\* blocking.
C19_Original ==
    /\ \A ctx \in Ctx : CalledWithLockFree(ctx) ~> ~InPrint(ctx)
    /\ [][\A ctx \in Ctx : (InPrint(ctx) /\ ~InPrint(ctx)') => ~lock']_vars

====
